---- MODULE Spec2Model ----
(***************************************************************************)
(* A model of util/cmd.py (viral-ngs): the multi-command CLI wrapper.      *)
(* The state is the process state main_argparse reads and writes: the      *)
(* plugin registry, the parser tree, the parsed namespace, the root logger,*)
(* tempfile.tempdir, os.environ, the scoped temp directories on disk, and  *)
(* the position of main_argparse.                                          *)
(***************************************************************************)
EXTENDS Integers, Sequences, FiniteSets, TLC

(* ---------------------------------------------------------------- bounds *)

\* Most process arguments after the program name.
MaxArgs == 2
\* Most direct calls of load_cmd_plugins before main_argparse starts.
MaxLoads == 1

(* ------------------------------------------------------- values and names *)

\* Python's None, where the model holds it in a string-valued place.
NoneName == "None"

\* Values a command may return: None, an int, a bool.
NoneVal == [tag |-> "None", v |-> 0]
IntVal(n) == [tag |-> "int", v |-> n]
BoolVal(b) == [tag |-> "bool", v |-> IF b THEN 1 ELSE 0]
RetVals == {NoneVal, IntVal(0), IntVal(3), BoolVal(FALSE)}

\* What a command may raise.
Excs == {"Exception", "BadInputError"}

\* sys.argv[0] and what script_name() makes of it.
ProgName == "prog.py"

script_name(argv0) == IF argv0 = "prog.py" THEN "prog" ELSE argv0

\* The --loglevel choices of common_args.
LoglevelChoices == {"DEBUG", "INFO", "WARNING", "ERROR", "CRITICAL", "EXCEPTION"}

\* getattr(logging, NAME, None): the numeric levels of the logging module;
\* 0 stands for None (the logging module has no attribute EXCEPTION).
LoggingAttr(name) ==
    CASE name = "DEBUG" -> 10
      [] name = "INFO" -> 20
      [] name = "WARNING" -> 30
      [] name = "ERROR" -> 40
      [] name = "CRITICAL" -> 50
      [] OTHER -> 0

\* What util.file.find_tmp_dir() returns: the default base directory.
find_tmp_dir == "/tmp"

(* ------------------------------------------------------------ the handlers *)

\* A command handler as inspect sees it: its declared parameter names, the
\* ones without a default, and whether it declares *args or **kwargs.
Handlers ==
    [ main_plain |-> [args |-> {"args"}, required |-> {"args"},
                      varargs |-> FALSE, varkw |-> FALSE],
      main_split |-> [args |-> {"tmp_dir", "threads", "inFile"},
                      required |-> {"tmp_dir"},
                      varargs |-> FALSE, varkw |-> FALSE],
      main_cmdname |-> [args |-> {"command", "loglevel"},
                        required |-> {"command", "loglevel"},
                        varargs |-> FALSE, varkw |-> FALSE],
      main_varargs |-> [args |-> {"tmp_dir"}, required |-> {"tmp_dir"},
                        varargs |-> TRUE, varkw |-> FALSE],
      main_varkw |-> [args |-> {"loglevel"}, required |-> {"loglevel"},
                      varargs |-> FALSE, varkw |-> TRUE] ]

\* The docstrings of the handlers (cmd_main.__doc__), << >> for none.
DefaultDocs ==
    [h \in DOMAIN Handlers |->
        IF h = "main_split" THEN <<"a", ".", " ", " ", "b">>
        ELSE IF h = "main_plain" THEN << >>
        ELSE <<"a", " ", "b">>]

\* util.misc.getargspec(mainfunc): (args, varargs, varkw).
getargspec(h) == Handlers[h]

\* util.misc.dict_subset(d, keys): d restricted to the keys in `keys`.
dict_subset(d, keys) == [k \in (DOMAIN d) \cap keys |-> d[k]]

(* ------------------------------------------------- the command descriptors *)

\* A parser-construction function of a command module, as the modules of the
\* repository write it: common_args with an arglist, then attach_main with a
\* handler.  A descriptor is (name, builder); name NoneName is Python's None.
Builder(arglist, handler, split) ==
    [arglist |-> arglist, handler |-> handler, split |-> split]

Descriptor(name, b) == [name |-> name, builder |-> b]

BTmpLog == Builder(<< <<"tmp_dir", NoneName>>, <<"loglevel", NoneName>> >>,
                   "main_split", TRUE)
BPlain == Builder(<< >>, "main_plain", FALSE)
BLogOnly == Builder(<< <<"loglevel", NoneName>>, <<"threads", NoneName>> >>,
                    "main_cmdname", TRUE)
BTmpOnly == Builder(<< <<"tmp_dir", "/alt">> >>, "main_varkw", FALSE)
BVarargs == Builder(<< <<"tmp_dir", NoneName>> >>, "main_varargs", TRUE)
BVarkw == Builder(<< <<"loglevel", NoneName>> >>, "main_varkw", TRUE)

\* The command lists main_argparse is run on: the name None only as the
\* name of a sole descriptor.
CommandLists ==
    { << Descriptor(NoneName, BTmpLog) >>,
      << Descriptor("build", BTmpLog), Descriptor("run", BPlain) >>,
      << Descriptor("build", BLogOnly), Descriptor("run", BTmpOnly) >>,
      << Descriptor("build", BTmpLog) >>,
      << Descriptor("build", BPlain), Descriptor("run", BVarargs) >>,
      << Descriptor(NoneName, BVarkw) >> }

\* Command lists that mix a None-named descriptor among several.
MixedLists ==
    { << Descriptor("build", BTmpLog), Descriptor(NoneName, BPlain) >>,
      << Descriptor(NoneName, BPlain), Descriptor("build", BLogOnly) >> }

(* --------------------------------------------------------- process arguments *)

LoglevelTokens ==
    { "--loglevel=DEBUG", "--loglevel=INFO", "--loglevel=WARNING",
      "--loglevel=ERROR", "--loglevel=CRITICAL", "--loglevel=EXCEPTION",
      "--loglevel=BAD" }

\* The value part of a --loglevel=VALUE argument.
LoglevelValue(t) ==
    CASE t = "--loglevel=DEBUG" -> "DEBUG"
      [] t = "--loglevel=INFO" -> "INFO"
      [] t = "--loglevel=WARNING" -> "WARNING"
      [] t = "--loglevel=ERROR" -> "ERROR"
      [] t = "--loglevel=CRITICAL" -> "CRITICAL"
      [] t = "--loglevel=EXCEPTION" -> "EXCEPTION"
      [] OTHER -> "BAD"

\* Arguments that start with '-': argparse treats them as option strings.
OptionTokens ==
    LoglevelTokens \cup {"--help", "--tmp_dirKeep", "--bogus"}

\* Arguments that do not: the command names (a command list that lacks one of
\* them takes it as an unknown word).
WordTokens == {"build", "run"}

Tokens == OptionTokens \cup WordTokens

RECURSIVE SeqsUpTo(_, _)
SeqsUpTo(S, n) ==
    IF n = 0 THEN { << >> }
    ELSE LET shorter == SeqsUpTo(S, n - 1)
         IN  shorter \cup { Append(s, t) : s \in {x \in shorter : Len(x) = n - 1}, t \in S }

\* Every sys.argv of the model: the program name and up to MaxArgs arguments.
Argvs == { <<ProgName>> \o s : s \in SeqsUpTo(Tokens, MaxArgs) }

(* ----------------------------------------------------------------- parsers *)

EmptyNs == [k \in {} |-> NoneName]

\* argparse.ArgumentParser(): a fresh parser; -h/--help is added by default.
NewParser ==
    [opts |-> {}, defaults |-> EmptyNs, add_help |-> TRUE, configured |-> FALSE,
     configured_by |-> << >>, description |-> << >>, exc |-> NoneName]

AddOpt(parser, dest, default) ==
    [parser EXCEPT !.opts = @ \cup {dest},
                   !.defaults = (dest :> default) @@ @]

\* common_args: one arglist entry (k, v) applied to the parser.
common_arg(parser, k, v) ==
    CASE k = "loglevel" ->
           AddOpt(parser, "loglevel", IF v = NoneName THEN "INFO" ELSE v)
      [] k = "tmp_dir" ->
           AddOpt(AddOpt(parser, "tmp_dir", IF v = NoneName THEN find_tmp_dir ELSE v),
                  "tmp_dirKeep", FALSE)
      [] k = "threads" -> AddOpt(parser, "threads", v)
      [] k = "version" -> [parser EXCEPT !.opts = @ \cup {"version"}]
      [] OTHER -> [parser EXCEPT !.exc = "Exception"]

RECURSIVE common_args(_, _)
common_args(parser, arglist) ==
    IF arglist = << >> \/ parser.exc # NoneName THEN parser
    ELSE common_args(common_arg(parser, Head(arglist)[1], Head(arglist)[2]),
                     Tail(arglist))

(* ------------------------------------------------------- the hook registry *)

PluginCmd == "util.cmd"
PluginMetadata == "util.metadata"
PluginOther == "other"

\* cmd_plugin_mgr.list_name_plugin(): the registered plugins, in the order
\* they were registered.  The registry is a sequence without repeats.
InSeq(x, s) == \E i \in 1..Len(s) : s[i] = x

\* cmd_plugin_mgr.register(plugin): adds the plugin unless its identity is
\* already present.
register(reg, p) == IF InSeq(p, reg) THEN reg ELSE Append(reg, p)

\* A variant without the 'if not list_name_plugin()' guard.
load_cmd_plugins_registers_unguarded(reg) == <<PluginCmd, PluginMetadata>>

\* load_cmd_plugins: the plugins it registers, in order; none when any plugin
\* is registered already.
load_cmd_plugins_registers(reg) ==
    IF reg = << >> THEN <<PluginCmd, PluginMetadata>> ELSE << >>

RECURSIVE register_all(_, _)
register_all(reg, ps) ==
    IF ps = << >> THEN reg ELSE register_all(register(reg, Head(ps)), Tail(ps))

load_cmd_plugins(reg) == register_all(reg, load_cmd_plugins_registers(reg))

\* The plugins that implement cmd_call_cmd.
CallCmdImpls == {PluginOther, PluginCmd}

\* A variant in which cmd_call_cmd of this module is not marked trylast.
CallCmdLast_unmarked == {}

\* The implementations marked trylast: cmd_call_cmd of this module.
CallCmdLast == {PluginCmd}

\* The implementations that are not marked trylast.
CallCmdFirst == CallCmdImpls \ CallCmdLast

\* The order in which a cmd_call_cmd dispatch tries the implementations:
\* registration order, the trylast ones after all others.
call_cmd_chain(reg) ==
    SelectSeq(reg, LAMBDA p : p \in CallCmdFirst)
        \o SelectSeq(reg, LAMBDA p : p \in CallCmdLast)

\* Who decides the result of a cmd_call_cmd dispatch, given the set of
\* plugins whose implementation defers (returns None) in this call: the
\* first implementation of the chain that does not defer, NoneName if none.
RECURSIVE first_result(_, _)
first_result(chain, deferring) ==
    IF chain = << >> THEN NoneName
    ELSE IF Head(chain) \in deferring THEN first_result(Tail(chain), deferring)
    ELSE Head(chain)

\* The implementations a cmd_call_cmd dispatch calls, in order, each with
\* whether it deferred: the chain up to the first that does not defer.
RECURSIVE hook_trace(_, _)
hook_trace(chain, deferring) ==
    IF chain = << >> THEN << >>
    ELSE IF Head(chain) \in deferring
    THEN <<[plugin |-> Head(chain), deferred |-> TRUE]>>
             \o hook_trace(Tail(chain), deferring)
    ELSE <<[plugin |-> Head(chain), deferred |-> FALSE]>>

(* ------------------------------------------------------ the argument binder *)

\* A variant of the assertion that looks at *args only.
main_command_ok_varargs_only(h) == ~getargspec(h).varargs

\* main_command's assertion: argspec[1:3] == (None, None).
main_command_ok(h) == ~getargspec(h).varargs /\ ~getargspec(h).varkw

\* main_command's mainfunc_args.
mainfunc_args(h) == getargspec(h).args

\* mainfunc(**kwargs) can be called: every parameter the handler requires
\* is among the keyword arguments.  handler(args) always can.
call_binds(call) ==
    ~call.bykw \/ Handlers[call.handler].required \subseteq DOMAIN call.passed

\* A variant that passes every field of the namespace.
main_command_kwargs_all(h, ns) == ns

\* main_command._main(args): the keyword arguments mainfunc is called with.
main_command_kwargs(h, ns) == dict_subset(ns, mainfunc_args(h))

\* The call a stored cmd_main makes of its handler: by keyword through the
\* binder when attach_main was given split_args, else handler(args).
HandlerCall(fm, ns) ==
    [handler |-> fm.cmd_main, bykw |-> fm.split,
     passed |-> IF fm.split THEN main_command_kwargs(fm.cmd_main, ns) ELSE ns]

\* cmd_call_cmd of this module: the calls it makes, cmd_main(args) once.
cmd_call_cmd(fm, ns) == << HandlerCall(fm, ns) >>

\* A variant that calls cmd_main(args) and forgets to return its value.
cmd_call_cmd_no_return(outcome) ==
    IF outcome.kind = "exc" THEN outcome
    ELSE [kind |-> "ret", val |-> NoneVal, exc |-> NoneName, status |-> 0]

\* cmd_call_cmd of this module: what it gives back, given how cmd_main(args)
\* ended: the value it returned, or the exception it raised.
cmd_call_cmd_returns(outcome) == outcome

(* ---------------------------------------------------------------- attach_main *)

\* attach_main(parser, cmd_main, split_args) run against a registry: the
\* parser and registry it leaves, what it raised, and its steps in order.
\* A variant that runs cmd_configure_parser before the plugins are loaded.
attach_main_configures_first(parser, handler, split, reg, doc) ==
    IF split /\ ~main_command_ok(handler)
    THEN [parser |-> parser, reg |-> reg, exc |-> "AssertionError",
          steps |-> <<"main_command">>]
    ELSE [parser |-> [parser EXCEPT
                        !.configured = TRUE,
                        !.configured_by = reg,
                        !.description = doc,
                        !.defaults = ("func_main" :>
                                        [cmd_main |-> handler, split |-> split]) @@ @],
          reg |-> load_cmd_plugins(reg),
          exc |-> NoneName,
          steps |-> (IF split THEN <<"main_command">> ELSE << >>)
                    \o <<"cmd_configure_parser", "load_cmd_plugins", "set_defaults">>]

attach_main(parser, handler, split, reg, doc) ==
    IF split /\ ~main_command_ok(handler)
    THEN [parser |-> parser, reg |-> reg, exc |-> "AssertionError",
          steps |-> <<"main_command">>]
    ELSE [parser |-> [parser EXCEPT
                        !.configured = TRUE,
                        !.configured_by = load_cmd_plugins(reg),
                        !.description = doc,
                        !.defaults = ("func_main" :>
                                        [cmd_main |-> handler, split |-> split]) @@ @],
          reg |-> load_cmd_plugins(reg),
          exc |-> NoneName,
          steps |-> (IF split THEN <<"main_command">> ELSE << >>)
                    \o <<"load_cmd_plugins", "cmd_configure_parser", "set_defaults">>]

\* A parser-construction function applied to a parser.
RunBuilder(b, parser, reg, doc) ==
    LET p1 == common_args(parser, b.arglist)
    IN  IF p1.exc # NoneName
        THEN [parser |-> p1, reg |-> reg, exc |-> p1.exc, steps |-> << >>]
        ELSE attach_main(p1, b.handler, b.split, reg, doc)

(* ------------------------------------------------------------- make_parser *)

\* make_parser's test for the single nameless command.
is_single(commands) == Len(commands) = 1 /\ commands[1].name = NoneName

\* The parser make_parser starts from: on the multi-command branch a root
\* parser with the custom --help and no subcommand yet; on the other the
\* parser of the only command is still to be built.  `names` keeps the
\* order in which the subcommands were added (subparsers.choices).
EmptySubs == [k \in {} |-> NewParser]

make_parser_root(commands) ==
    [kind |-> IF is_single(commands) THEN "single" ELSE "multi",
     names |-> << >>,
     subs |-> EmptySubs]

\* A variant that also gives the parser of the single nameless command the
\* --version option of the root parser.
add_command_with_version(tree, d, p) ==
    IF tree.kind = "single"
    THEN [tree EXCEPT !.names = <<"">>,
                      !.subs = ("" :> [p EXCEPT !.defaults = ("command" :> "") @@ @,
                                                !.opts = @ \cup {"version"}])]
    ELSE [tree EXCEPT !.names = Append(@, d.name), !.subs = (d.name :> p) @@ @]

\* One command added to the tree: the parser its builder left, under the
\* command's name; the single nameless command is kept under "" with
\* set_defaults(command='').
add_command(tree, d, p) ==
    IF tree.kind = "single"
    THEN [tree EXCEPT !.names = <<"">>,
                      !.subs = ("" :> [p EXCEPT !.defaults = ("command" :> "") @@ @])]
    ELSE [tree EXCEPT !.names = Append(@, d.name), !.subs = (d.name :> p) @@ @]

\* The tree a builder that raised leaves behind: on the multi-command
\* branch the subparser was added (line 204) before the builder ran on it
\* (line 205) and holds what the builder did until it raised; on the other
\* branch nothing was assigned yet.
add_failed_command(tree, d, p) ==
    IF tree.kind = "single" THEN tree
    ELSE [tree EXCEPT !.names = Append(@, d.name), !.subs = (d.name :> p) @@ @]

(* --------------------------------------------------------------- parse_args *)

ParseResult(st, ns, extras, help) ==
    [st |-> st, ns |-> ns, extras |-> extras, help |-> help]

\* The arguments of one command parsed left to right by its parser: --help
\* prints and exits at once, a value outside the choices is an error at
\* once, what the parser does not declare is collected.
RECURSIVE ParseOpts(_, _, _, _, _)
ParseOpts(parser, who, toks, ns, extras) ==
    IF toks = << >> THEN ParseResult("ok", ns, extras, NoneName)
    ELSE LET t == Head(toks)
             rest == Tail(toks)
         IN  CASE t = "--help" /\ parser.add_help ->
                    ParseResult("help", EmptyNs, extras, who)
               [] t = "--tmp_dirKeep" /\ "tmp_dirKeep" \in parser.opts ->
                    ParseOpts(parser, who, rest, ("tmp_dirKeep" :> TRUE) @@ ns, extras)
               [] t \in LoglevelTokens /\ "loglevel" \in parser.opts ->
                    IF LoglevelValue(t) \in LoglevelChoices
                    THEN ParseOpts(parser, who, rest,
                                   ("loglevel" :> LoglevelValue(t)) @@ ns, extras)
                    ELSE ParseResult("error", EmptyNs, extras, NoneName)
               [] OTHER -> ParseOpts(parser, who, rest, ns, Append(extras, t))

\* The root parser of a multi-command tree: its own --help (_HelpAction),
\* then the subcommand, which parses all that follows it.  _HelpAction
\* concatenates each choice with strings, a TypeError for the choice None.
RECURSIVE ParseRoot(_, _, _)
ParseRoot(tree, toks, extras) ==
    IF toks = << >> THEN ParseResult("ok", ("command" :> NoneName), extras, NoneName)
    ELSE LET t == Head(toks)
         IN  CASE t = "--help" ->
                    IF NoneName \in DOMAIN tree.subs
                    THEN ParseResult("TypeError", EmptyNs, extras, NoneName)
                    ELSE ParseResult("help", EmptyNs, extras, "root")
               [] t \in OptionTokens -> ParseRoot(tree, Tail(toks), Append(extras, t))
               [] t \in DOMAIN tree.subs ->
                    ParseOpts(tree.subs[t], t, Tail(toks),
                              ("command" :> t) @@ tree.subs[t].defaults, extras)
               [] OTHER -> ParseResult("error", EmptyNs, extras, NoneName)

\* A variant that lets unrecognized arguments pass (parse_known_args).
parse_finish_known_only(r) == r

\* parse_args ends in an error when arguments are left unrecognized.
parse_finish(r) ==
    IF r.st = "ok" /\ r.extras # << >>
    THEN ParseResult("error", EmptyNs, r.extras, NoneName)
    ELSE r

\* parser.parse_args(toks) on the tree make_parser built.
parse_args(tree, toks) ==
    parse_finish(IF tree.kind = "single"
                 THEN ParseOpts(tree.subs[""], "", toks, tree.subs[""].defaults, << >>)
                 ELSE ParseRoot(tree, toks, << >>))

\* A variant without the no-argument case.
forced_help_no_zero_case(argv, commands) ==
    IF Len(argv) = 2 /\ (Len(commands) > 1 \/ commands[1].name # NoneName)
    THEN <<argv[2], "--help">>
    ELSE << >>

\* A variant without the lone-subcommand case.
forced_help_no_command_case(argv, commands) ==
    IF Len(argv) = 1 THEN <<"--help">> ELSE << >>

\* main_argparse, lines 213-216: the argument list it parses first to show
\* help, << >> when it parses none first.
forced_help(argv, commands) ==
    IF Len(argv) = 1 THEN <<"--help">>
    ELSE IF Len(argv) = 2 /\ (Len(commands) > 1 \/ commands[1].name # NoneName)
    THEN <<argv[2], "--help">>
    ELSE << >>

\* The exit status of a parse that ended the process.
exit_status(r) == IF r.st = "help" THEN 0 ELSE 2

(* ------------------------------------------------------------------ logging *)

\* setup_logger's argument in main_argparse: 'DEBUG' when the namespace has no
\* loglevel field, else the field.
effective_loglevel(ns) ==
    IF "loglevel" \notin DOMAIN ns THEN "DEBUG" ELSE ns["loglevel"]

\* setup_logger's loglevel = getattr(logging, log_level.upper(), None); the
\* assertion on it fails when this is 0.
setup_logger_level(name) == LoggingAttr(name)

\* Logger.isEnabledFor: a record of level `lvl` is emitted by a logger whose
\* level is `level`.
log_emits(level, lvl) == lvl >= level

\* The records log.debug / log.info add to the output at the given level.
log_debug(out, level, msg) ==
    IF log_emits(level, LoggingAttr("DEBUG")) THEN Append(out, msg) ELSE out

log_info(out, level, msg) ==
    IF log_emits(level, LoggingAttr("INFO")) THEN Append(out, msg) ELSE out

(* ------------------------------------------------------ the scoped directory *)

\* The environments main_argparse is started in.
EmptyEnv == [k \in {} |-> ""]

Envs ==
    { EmptyEnv,
      ("LSB_JOBID" :> "77") @@ ("JOB_ID" :> "88"),
      ("JOB_ID" :> "88") @@ ("LSB_JOBINDEX" :> "5") }

\* os.environ.get(k, default)
environ_get(env, k, default) == IF k \in DOMAIN env THEN env[k] ELSE default

\* main_argparse, lines 229-234: the name proposed for the directory.
proposed_dir(argv0, command, env) ==
    IF "LSB_JOBID" \in DOMAIN env
    THEN <<"tmp", script_name(argv0), command, env["LSB_JOBID"],
           environ_get(env, "LSB_JOBINDEX", "0")>>
    ELSE IF "JOB_ID" \in DOMAIN env
    THEN <<"tmp", script_name(argv0), command, env["JOB_ID"],
           environ_get(env, "LSB_JOBINDEX", "0")>>
    ELSE <<"tmp", script_name(argv0), command>>

\* A variant that makes the directory under the default base directory.
mkdtemp_in_default_base(prefix, dir) ==
    [dir |-> find_tmp_dir, prefix |-> prefix, suffix |-> "uniq"]

\* tempfile.mkdtemp(prefix, dir): a new directory under dir.
mkdtemp(prefix, dir) == [dir |-> dir, prefix |-> prefix, suffix |-> "uniq"]

NoDir == [dir |-> NoneName, prefix |-> << >>, suffix |-> NoneName]

\* main_argparse, line 241: whether the directory is kept, given what
\* util.file.keep_tmp() answers.
keep_dir(ns, keep_tmp_answer) ==
    ("tmp_dirKeep" \in DOMAIN ns /\ ns["tmp_dirKeep"]) \/ keep_tmp_answer

\* Whether line 241 calls util.file.keep_tmp() at all ('or' short-circuits).
asks_keep_tmp(ns) == ~("tmp_dirKeep" \in DOMAIN ns /\ ns["tmp_dirKeep"])

\* A variant without the finally: the cleanup runs only when the command
\* returned.
finally_runs_on_return_only(pending) == pending.kind = "ret"

\* The try/finally of lines 238-245: the cleanup runs whether the command
\* returned or raised.
finally_runs(pending) == pending.kind \in {"ret", "exc"}

(* --------------------------------------------------------- the final result *)

NoOutcome == [kind |-> "none", val |-> NoneVal, exc |-> NoneName, status |-> 0]
Returned(v) == [kind |-> "ret", val |-> v, exc |-> NoneName, status |-> 0]
Raised(e) == [kind |-> "exc", val |-> NoneVal, exc |-> e, status |-> 0]
Exited(n) == [kind |-> "exit", val |-> NoneVal, exc |-> NoneName, status |-> n]

\* A variant that normalizes every falsy value ('if not ret').
normalize_ret_falsy(ret) == IF ret.v = 0 THEN IntVal(0) ELSE ret

\* main_argparse, lines 249-251.
normalize_ret(ret) == IF ret = NoneVal THEN IntVal(0) ELSE ret

\* A variant that catches the exception and returns 1.
main_argparse_end_swallows(pending) ==
    IF pending.kind = "exc" THEN Returned(IntVal(1)) ELSE Returned(pending.val)

\* How main_argparse ends once the command has ended (and the finally
\* block, if any, has run): a raised exception leaves it, a returned value is
\* normalized and returned.
main_argparse_end(pending) ==
    IF pending.kind = "exc" THEN pending ELSE Returned(normalize_ret(pending.val))

\* How run_cmd ends once the command has ended: a raised exception leaves
\* it, a returned value is dropped and None returned.
run_cmd_end(pending) ==
    IF pending.kind = "exc" THEN pending ELSE Returned(NoneVal)

(* ---------------------------------------------------------- the help text *)

\* A string is a sequence of one-character strings.
Chars == {"a", "b", ".", " ", "\n", "\t"}

\* The longest description drawn as an input.
MaxDescLen == 5

\* The descriptions (docstrings of handlers) drawn as inputs.
Descs == SeqsUpTo(Chars, MaxDescLen)

\* str.replace(old, new): every occurrence, left to right, not overlapping.
RECURSIVE str_replace(_, _, _)
str_replace(s, old, new) ==
    IF Len(s) < Len(old) THEN s
    ELSE IF SubSeq(s, 1, Len(old)) = old
    THEN new \o str_replace(SubSeq(s, Len(old) + 1, Len(s)), old, new)
    ELSE <<Head(s)>> \o str_replace(Tail(s), old, new)

IsWhite(c) == c \in {" ", "\n", "\t"}

\* str.strip(): leading and trailing whitespace dropped.
RECURSIVE str_lstrip(_)
str_lstrip(s) ==
    IF s # << >> /\ IsWhite(Head(s)) THEN str_lstrip(Tail(s)) ELSE s

RECURSIVE str_rstrip(_)
str_rstrip(s) ==
    IF s # << >> /\ IsWhite(s[Len(s)]) THEN str_rstrip(SubSeq(s, 1, Len(s) - 1)) ELSE s

str_strip(s) == str_rstrip(str_lstrip(s))

\* str.expandtabs(): a tab becomes the spaces up to the next multiple of
\* eight columns; a line break starts the columns again.
RECURSIVE Spaces(_)
Spaces(n) == IF n <= 0 THEN << >> ELSE <<" ">> \o Spaces(n - 1)

RECURSIVE expandtabs_from(_, _)
expandtabs_from(s, col) ==
    IF s = << >> THEN << >>
    ELSE IF Head(s) = "\t"
    THEN Spaces(8 - (col % 8)) \o expandtabs_from(Tail(s), 0)
    ELSE IF Head(s) = "\n"
    THEN <<"\n">> \o expandtabs_from(Tail(s), 0)
    ELSE <<Head(s)>> \o expandtabs_from(Tail(s), col + 1)

str_expandtabs(s) == expandtabs_from(s, 0)

\* textwrap: tabs expanded, then every whitespace character becomes a space.
munge_whitespace(s) ==
    LET e == str_expandtabs(s)
    IN  [i \in 1..Len(e) |-> IF IsWhite(e[i]) THEN " " ELSE e[i]]

\* textwrap: the text cut into chunks, the maximal runs of spaces and of
\* other characters.
RECURSIVE RunLen(_)
RunLen(s) ==
    IF Len(s) <= 1 THEN Len(s)
    ELSE IF (s[1] = " ") = (s[2] = " ") THEN 1 + RunLen(Tail(s))
    ELSE 1

RECURSIVE split_chunks(_)
split_chunks(s) ==
    IF s = << >> THEN << >>
    ELSE <<SubSeq(s, 1, RunLen(s))>> \o split_chunks(SubSeq(s, RunLen(s) + 1, Len(s)))

IsBlank(chunk) == \A i \in 1..Len(chunk) : chunk[i] = " "

RECURSIVE Flatten(_)
Flatten(chunks) ==
    IF chunks = << >> THEN << >> ELSE Head(chunks) \o Flatten(Tail(chunks))

\* textwrap: how many of the next chunks fit on the current line.
RECURSIVE TakeFit(_, _, _)
TakeFit(chunks, curlen, width) ==
    IF chunks = << >> \/ curlen + Len(Head(chunks)) > width THEN 0
    ELSE 1 + TakeFit(Tail(chunks), curlen + Len(Head(chunks)), width)

\* textwrap.TextWrapper._wrap_chunks: lines filled greedily, whitespace
\* dropped at the start of a line after the first and at the end of every
\* line, a chunk longer than the width broken.
RECURSIVE wrap_chunks(_, _, _)
wrap_chunks(chunks, haveLines, width) ==
    IF chunks = << >> THEN << >>
    ELSE LET c1 == IF haveLines /\ IsBlank(Head(chunks)) THEN Tail(chunks) ELSE chunks
             k == TakeFit(c1, 0, width)
             taken == SubSeq(c1, 1, k)
             rest1 == SubSeq(c1, k + 1, Len(c1))
             curlen == Len(Flatten(taken))
             long == rest1 # << >> /\ Len(Head(rest1)) > width
             spaceLeft == IF width < 1 THEN 1 ELSE width - curlen
             cur2 == IF long THEN Append(taken, SubSeq(Head(rest1), 1, spaceLeft))
                     ELSE taken
             rest2 == IF long
                      THEN <<SubSeq(Head(rest1), spaceLeft + 1, Len(Head(rest1)))>>
                               \o Tail(rest1)
                      ELSE rest1
             cur3 == IF cur2 # << >> /\ IsBlank(cur2[Len(cur2)])
                     THEN SubSeq(cur2, 1, Len(cur2) - 1) ELSE cur2
         IN  (IF cur3 # << >> THEN <<Flatten(cur3)>> ELSE << >>)
                 \o wrap_chunks(rest2, haveLines \/ cur3 # << >>, width)

\* textwrap.wrap(text, width): the lines.
textwrap_wrap(text, width) ==
    wrap_chunks(split_chunks(munge_whitespace(text)), FALSE, width)

RECURSIVE JoinLines(_)
JoinLines(lines) ==
    IF lines = << >> THEN << >>
    ELSE IF Len(lines) = 1 THEN lines[1]
    ELSE lines[1] \o <<"\n">> \o JoinLines(Tail(lines))

\* textwrap.fill(text, width)
textwrap_fill(text, width) == JoinLines(textwrap_wrap(text, width))

\* The width _HelpAction wraps descriptions to.
HelpWidth == 60

\* _HelpAction, line 164: the four replacements.
clean_description(d) ==
    str_replace(str_replace(str_replace(str_replace(d, <<"\n">>, << >>),
                                        <<".", " ", " ">>, <<".", " ">>),
                            <<" ", " ">>, << >>),
                <<"\t">>, << >>)

\* _HelpAction, lines 164-167: the description as printed, before the
\* indentation of line 169.
help_description(d) == textwrap_fill(str_strip(clean_description(d)), HelpWidth)

\* _HelpAction, lines 155, 169-170: each line indented by ten spaces.
indent_space == <<" ", " ", " ", " ", " ">>

help_indented(d) ==
    indent_space \o indent_space
        \o str_replace(help_description(d), <<"\n">>, <<"\n">> \o indent_space \o indent_space)

\* _HelpAction, line 159: the subcommands whose heading is printed, the ones
\* before the first whose name is None (its heading raises the TypeError).
RECURSIVE printed_names(_)
printed_names(names) ==
    IF names = << >> \/ Head(names) = NoneName THEN {}
    ELSE {Head(names)} \cup printed_names(Tail(names))

\* _HelpAction, lines 158-171: for each subcommand in order, its description
\* as printed, or nothing when it has none.
root_help_text(tree) ==
    [name \in printed_names(tree.names) |->
        IF tree.subs[name].description # << >>
        THEN <<help_indented(tree.subs[name].description)>>
        ELSE << >>]

(* -------------------------------------------------------------------- state *)

VARIABLES
    pc,          \* where main_argparse is
    commands,    \* the command list main_argparse is given
    argv,        \* sys.argv
    environ,     \* os.environ
    registry,    \* the plugins registered with cmd_plugin_mgr, in order
    regCalls,    \* every plugin handed to register(), in order
    loads,       \* direct calls of load_cmd_plugins made so far
    parser,      \* the parser tree make_parser builds
    bi,          \* make_parser's position in the command list
    ns,          \* args, the parsed namespace
    parsed,      \* the argument lists handed to parse_args, in order
    helpShown,   \* the parser whose help was printed, NoneName if none
    helpText,    \* the descriptions the root help printed, by command
    docs,        \* the docstring of each handler
    hookTrace,   \* the cmd_call_cmd implementations the dispatch called
    logLevel,    \* the root logger's level
    logHandlers, \* the number of handlers on the root logger
    logOut,      \* the records the root logger emitted
    fs,          \* the scoped directories that exist
    tempdir,     \* tempfile.tempdir
    keepTmp,     \* what util.file.keep_tmp() answered: "unasked", "yes", "no"
    calls,       \* the calls made of command handlers, in order
    handlerOutcome, \* how the handler ended
    pending,     \* how the command (args.func_main) ended
    result,      \* how main_argparse ended
    events       \* the steps taken, in order

vars == << pc, commands, argv, environ, registry, regCalls, loads, parser, bi, ns,
           parsed, helpShown, logLevel, logHandlers, logOut, fs, tempdir, keepTmp,
           calls, handlerOutcome, pending, result, events, helpText, docs,
           hookTrace >>

procVars == << commands, argv, docs >>
regVars == << registry, regCalls, loads >>
parseVars == << parser, bi, ns, parsed, helpShown, helpText >>
logVars == << logLevel, logHandlers, logOut >>
dirVars == << fs, tempdir, keepTmp, environ >>
runVars == << calls, handlerOutcome, pending, result, hookTrace >>

\* Before main_argparse is called: nothing registered, parsed, logged or
\* made yet.
InitRest ==
    /\ pc = "Start"
    /\ registry = << >>
    /\ regCalls = << >>
    /\ loads = 0
    /\ parser = make_parser_root(<< >>)
    /\ bi = 0
    /\ ns = EmptyNs
    /\ parsed = << >>
    /\ helpShown = NoneName
    /\ logLevel = LoggingAttr("WARNING")
    /\ logHandlers = 0
    /\ logOut = << >>
    /\ fs = {}
    /\ tempdir = NoDir
    /\ keepTmp = "unasked"
    /\ calls = << >>
    /\ handlerOutcome = NoOutcome
    /\ pending = NoOutcome
    /\ result = NoOutcome
    /\ events = << >>
    /\ helpText = << >>
    /\ hookTrace = << >>

Init ==
    /\ commands \in CommandLists
    /\ argv \in Argvs
    /\ environ \in Envs
    /\ docs = DefaultDocs
    /\ InitRest

(* ------------------------------------------------- before main_argparse runs *)

\* load_cmd_plugins called directly.
LoadCmdPlugins ==
    /\ pc = "Start"
    /\ loads < MaxLoads
    /\ loads' = loads + 1
    /\ registry' = load_cmd_plugins(registry)
    /\ regCalls' = regCalls \o load_cmd_plugins_registers(registry)
    /\ events' = Append(events, "load_cmd_plugins")
    /\ UNCHANGED << pc, procVars, parseVars, logVars, dirVars, runVars >>

\* Another plugin registers itself with cmd_plugin_mgr.
RegisterOther ==
    /\ pc = "Start"
    /\ ~InSeq(PluginOther, registry)
    /\ registry' = register(registry, PluginOther)
    /\ regCalls' = Append(regCalls, PluginOther)
    /\ events' = Append(events, "register_other")
    /\ UNCHANGED << pc, procVars, loads, parseVars, logVars, dirVars, runVars >>

(* ------------------------------------------------------------- main_argparse *)

\* make_parser begins: the branch is chosen, no command is built yet.
MakeParserBegin ==
    /\ pc = "Start"
    /\ pc' = "Building"
    /\ parser' = make_parser_root(commands)
    /\ bi' = 1
    /\ events' = Append(events, "make_parser")
    /\ UNCHANGED << procVars, regVars, ns, parsed, helpShown, helpText, logVars,
                    dirVars, runVars >>

\* make_parser adds the subparser of the next command and runs the
\* command's builder on it: common_args and attach_main.
BuildCommand ==
    /\ pc = "Building"
    /\ LET d == commands[bi]
           r == RunBuilder(d.builder, NewParser, registry, docs[d.builder.handler])
       IN  /\ events' = events \o r.steps
           /\ regCalls' = IF r.exc = NoneName
                          THEN regCalls \o load_cmd_plugins_registers(registry)
                          ELSE regCalls
           /\ registry' = r.reg
           /\ IF r.exc # NoneName
              THEN /\ pc' = "Raised"
                   /\ result' = Raised(r.exc)
                   /\ parser' = add_failed_command(parser, d, r.parser)
                   /\ UNCHANGED bi
              ELSE /\ parser' = add_command(parser, d, r.parser)
                   /\ bi' = bi + 1
                   /\ pc' = IF bi = Len(commands) THEN "ParserBuilt" ELSE "Building"
                   /\ UNCHANGED result
    /\ UNCHANGED << procVars, loads, ns, parsed, helpShown, helpText, logVars,
                    dirVars, calls, handlerOutcome, pending, hookTrace >>

\* Lines 213-217: the forced help parse, if any, then the parse of the
\* process arguments.  A parse that prints help or fails ends the process;
\* an exception out of the help action leaves main_argparse.
ParseArgs ==
    /\ pc = "ParserBuilt"
    /\ LET first == forced_help(argv, commands)
           r1 == parse_args(parser, first)
           r2 == parse_args(parser, Tail(argv))
           early == first # << >> /\ r1.st # "ok"
           r == IF early THEN r1 ELSE r2
       IN  /\ parsed' = (IF first # << >> THEN <<first>> ELSE << >>)
                        \o (IF early THEN << >> ELSE <<Tail(argv)>>)
           /\ IF r.st = "ok"
              THEN /\ pc' = "ArgsParsed"
                   /\ ns' = r.ns
                   /\ UNCHANGED << helpShown, helpText, result >>
              ELSE IF r.st = "TypeError"
              THEN /\ pc' = "Raised"
                   /\ result' = Raised("TypeError")
                   /\ helpText' = root_help_text(parser)
                   /\ UNCHANGED << helpShown, ns >>
              ELSE /\ pc' = "Exited"
                   /\ helpShown' = r.help
                   /\ helpText' = IF r.help = "root" THEN root_help_text(parser)
                                   ELSE helpText
                   /\ result' = Exited(exit_status(r))
                   /\ UNCHANGED ns
    /\ events' = Append(events, "parse_args")
    /\ UNCHANGED << procVars, regVars, parser, bi, logVars, dirVars, calls,
                    handlerOutcome, pending, hookTrace >>

\* Lines 219-222: setup_logger, then the two log.info records.
SetupLogger ==
    /\ pc = "ArgsParsed"
    /\ LET level == setup_logger_level(effective_loglevel(ns))
       IN  IF level = 0
           THEN /\ pc' = "Raised"
                /\ result' = Raised("AssertionError")
                /\ UNCHANGED logVars
           ELSE /\ pc' = "LoggingConfigured"
                /\ logLevel' = level
                /\ logHandlers' = logHandlers + 1
                /\ logOut' = log_info(log_info(logOut, level, "software version"),
                                      level, "command")
                /\ UNCHANGED result
    /\ events' = Append(events, "setup_logger")
    /\ UNCHANGED << procVars, regVars, parseVars, dirVars, calls, handlerOutcome,
                    pending, hookTrace >>

\* Lines 224-237: the scoped directory is made under args.tmp_dir and
\* published in tempfile.tempdir and TMPDIR.
CreateTempDir ==
    /\ pc = "LoggingConfigured"
    /\ "tmp_dir" \in DOMAIN ns
    /\ LET d == mkdtemp(proposed_dir(argv[1], ns["command"], environ), ns["tmp_dir"])
       IN  /\ fs' = fs \cup {d}
           /\ tempdir' = d
           /\ environ' = ("TMPDIR" :> d) @@ environ
    /\ logOut' = log_debug(logOut, logLevel, "using tempDir")
    /\ pc' = "TempDirCreated"
    /\ events' = Append(events, "mkdtemp")
    /\ UNCHANGED << procVars, regVars, parseVars, logLevel, logHandlers, keepTmp,
                    runVars >>

\* args.func_main(args), the callback attach_main stored: a cmd_call_cmd
\* dispatch.  The implementations before the built-in one either defer or
\* give their own result; the built-in one calls the handler.  Control goes
\* to `running` when the handler is called, to `ended` otherwise.
Dispatch(running, ended) ==
    IF "func_main" \notin DOMAIN ns
    THEN /\ pc' = ended
         /\ pending' = Raised("AttributeError")
         /\ UNCHANGED << calls, hookTrace >>
    ELSE \E deferring \in SUBSET (CallCmdImpls \ {PluginCmd}), v \in RetVals :
           LET who == first_result(call_cmd_chain(registry), deferring)
           IN  /\ hookTrace' = hook_trace(call_cmd_chain(registry), deferring)
               /\ IF who = PluginCmd
                  THEN /\ v = NoneVal
                       /\ pc' = running
                       /\ calls' = calls \o cmd_call_cmd(ns["func_main"], ns)
                       /\ UNCHANGED pending
                  ELSE /\ who = NoneName => v = NoneVal
                       /\ pc' = ended
                       /\ pending' = Returned(v)
                       /\ UNCHANGED calls

\* The call of the handler ends: the handler returns a value or raises, or,
\* when the keyword arguments lack a parameter it requires, the call itself
\* raises a TypeError.  cmd_call_cmd gives the outcome back.
HandlerEnds(ended) ==
    /\ IF call_binds(calls[Len(calls)])
       THEN \/ \E v \in RetVals : handlerOutcome' = Returned(v)
            \/ \E e \in Excs : handlerOutcome' = Raised(e)
       ELSE handlerOutcome' = Raised("TypeError")
    /\ pending' = cmd_call_cmd_returns(handlerOutcome')
    /\ pc' = ended
    /\ events' = Append(events, "handler_ends")

\* Lines 239 / 248: args.func_main(args).
CallMain ==
    /\ \/ pc = "TempDirCreated"
       \/ pc = "LoggingConfigured" /\ "tmp_dir" \notin DOMAIN ns
    /\ Dispatch("CommandRunning", "CommandEnded")
    /\ events' = Append(events, "func_main")
    /\ UNCHANGED << procVars, regVars, parseVars, logVars, dirVars, handlerOutcome,
                    result >>

\* The handler called from main_argparse ends.
CommandEnds ==
    /\ pc = "CommandRunning"
    /\ HandlerEnds("CommandEnded")
    /\ UNCHANGED << procVars, regVars, parseVars, logVars, dirVars, calls, result,
                    hookTrace >>

\* Lines 240-245, the finally block: the directory is kept and its path
\* logged, or removed.
Cleanup ==
    /\ pc = "CommandEnded"
    /\ "tmp_dir" \in DOMAIN ns
    /\ finally_runs(pending)
    /\ \E answer \in BOOLEAN :
         /\ asks_keep_tmp(ns) \/ answer = FALSE
         /\ keepTmp' = IF asks_keep_tmp(ns) THEN (IF answer THEN "yes" ELSE "no")
                       ELSE "unasked"
         /\ IF keep_dir(ns, answer)
            THEN /\ logOut' = log_debug(logOut, logLevel, "saving tmp_dir")
                 /\ pc' = "TempDirKept"
                 /\ events' = Append(events, "keep")
                 /\ UNCHANGED fs
            ELSE /\ fs' = fs \ {tempdir}
                 /\ pc' = "TempDirRemoved"
                 /\ events' = Append(events, "rmtree")
                 /\ UNCHANGED logOut
    /\ UNCHANGED << procVars, regVars, parseVars, logLevel, logHandlers, tempdir,
                    environ, runVars >>

\* Lines 249-251, or the exception leaving main_argparse.
Finish ==
    /\ \/ pc \in {"TempDirKept", "TempDirRemoved"}
       \/ pc = "CommandEnded" /\ ("tmp_dir" \notin DOMAIN ns \/ ~finally_runs(pending))
    /\ result' = main_argparse_end(pending)
    /\ pc' = IF main_argparse_end(pending).kind = "exc" THEN "Raised" ELSE "Done"
    /\ events' = Append(events, "leave")
    /\ UNCHANGED << procVars, regVars, parseVars, logVars, dirVars, calls,
                    handlerOutcome, pending, hookTrace >>

(* ------------------------------------------------------------------- run_cmd *)

\* The names of the descriptors of a command list.
NamesOf(cs) == {cs[i].name : i \in 1..Len(cs)}

\* dict(module.__commands__)[cmd]: the place of the descriptor cmd names,
\* the last one of that name.
CommandIndex(cs, cmd) ==
    CHOOSE i \in 1..Len(cs) :
        cs[i].name = cmd /\ \A j \in (i + 1)..Len(cs) : cs[j].name # cmd

\* A command name that no descriptor has.
NoSuchCommand == "nocmd"

\* run_cmd(module, cmd, args), lines 275-276: the builder of cmd is looked
\* up and run on a fresh ArgumentParser.  The arguments are those of the
\* process; run_cmd reads no environment variable.
RunCmdBuild ==
    /\ pc = "Start"
    /\ \E cmd \in NamesOf(commands) \cup {NoSuchCommand} :
         IF cmd \notin NamesOf(commands)
         THEN /\ pc' = "RunCmdRaised"
              /\ result' = Raised("KeyError")
              /\ UNCHANGED << parser, bi, registry, regCalls, events >>
         ELSE LET i == CommandIndex(commands, cmd)
                  d == commands[i]
                  r == RunBuilder(d.builder, NewParser, registry, docs[d.builder.handler])
              IN  /\ events' = events \o r.steps
                  /\ regCalls' = IF r.exc = NoneName
                                 THEN regCalls \o load_cmd_plugins_registers(registry)
                                 ELSE regCalls
                  /\ registry' = r.reg
                  /\ bi' = i
                  /\ parser' = [kind |-> "run_cmd", names |-> <<cmd>>,
                                subs |-> (cmd :> r.parser)]
                  /\ IF r.exc # NoneName
                     THEN pc' = "RunCmdRaised" /\ result' = Raised(r.exc)
                     ELSE pc' = "RunCmdBuilt" /\ UNCHANGED result
    /\ UNCHANGED << procVars, loads, ns, parsed, helpShown, helpText, logVars,
                    dirVars, calls, handlerOutcome, pending, hookTrace >>

\* Line 276: parse_args(map(str, args)) on the parser the builder returned.
RunCmdParse ==
    /\ pc = "RunCmdBuilt"
    /\ LET cmd == parser.names[1]
           p == parser.subs[cmd]
           r == parse_finish(ParseOpts(p, cmd, Tail(argv), p.defaults, << >>))
       IN  /\ parsed' = <<Tail(argv)>>
           /\ IF r.st = "ok"
              THEN /\ pc' = "RunCmdParsed"
                   /\ ns' = r.ns
                   /\ UNCHANGED << helpShown, result >>
              ELSE /\ pc' = "RunCmdExited"
                   /\ helpShown' = r.help
                   /\ result' = Exited(exit_status(r))
                   /\ UNCHANGED ns
    /\ events' = Append(events, "parse_args")
    /\ UNCHANGED << procVars, regVars, parser, bi, helpText, logVars, dirVars, calls,
                    handlerOutcome, pending, hookTrace >>

\* Line 277: args_parsed.func_main(args_parsed), with no logger set up and
\* no scoped directory.
RunCmdCall ==
    /\ pc = "RunCmdParsed"
    /\ Dispatch("RunCmdRunning", "RunCmdEnded")
    /\ events' = Append(events, "func_main")
    /\ UNCHANGED << procVars, regVars, parseVars, logVars, dirVars, handlerOutcome,
                    result >>

\* The handler called from run_cmd ends.
RunCmdCommandEnds ==
    /\ pc = "RunCmdRunning"
    /\ HandlerEnds("RunCmdEnded")
    /\ UNCHANGED << procVars, regVars, parseVars, logVars, dirVars, calls, result,
                    hookTrace >>

\* run_cmd ends: the value of func_main is dropped and None returned, an
\* exception leaves run_cmd.
RunCmdFinish ==
    /\ pc = "RunCmdEnded"
    /\ result' = run_cmd_end(pending)
    /\ pc' = IF pending.kind = "exc" THEN "RunCmdRaised" ELSE "RunCmdDone"
    /\ UNCHANGED << procVars, regVars, parseVars, logVars, dirVars, calls,
                    handlerOutcome, pending, hookTrace, events >>

Next ==
    \/ LoadCmdPlugins
    \/ RegisterOther
    \/ MakeParserBegin
    \/ BuildCommand
    \/ ParseArgs
    \/ SetupLogger
    \/ CreateTempDir
    \/ CallMain
    \/ CommandEnds
    \/ Cleanup
    \/ Finish
    \/ RunCmdBuild
    \/ RunCmdParse
    \/ RunCmdCall
    \/ RunCmdCommandEnds
    \/ RunCmdFinish

Spec == Init /\ [][Next]_vars

\* main_argparse called with a command list that mixes a None-named
\* descriptor among several.
InitMixed ==
    /\ commands \in MixedLists
    /\ argv \in Argvs
    /\ environ \in Envs
    /\ docs = DefaultDocs
    /\ InitRest

SpecMixed == InitMixed /\ [][Next]_vars

\* main_argparse asked for the root help of a two-command program, one
\* handler of which has any of the bounded docstrings.
InitHelp ==
    /\ commands = << Descriptor("build", BTmpLog), Descriptor("run", BPlain) >>
    /\ argv \in { <<ProgName>>, <<ProgName, "--help">> }
    /\ environ = EmptyEnv
    /\ docs \in { [DefaultDocs EXCEPT !["main_plain"] = d] : d \in Descs }
    /\ InitRest

\* The steps of main_argparse up to the printing of the help.
NextHelp ==
    \/ MakeParserBegin
    \/ BuildCommand
    \/ ParseArgs

SpecHelp == InitHelp /\ [][NextHelp]_vars

(* ------------------------------------------------------------------ claims *)

\* The process called run_cmd, not main_argparse.
InRunCmd ==
    pc \in {"RunCmdBuilt", "RunCmdParsed", "RunCmdRunning", "RunCmdEnded",
            "RunCmdDone", "RunCmdRaised", "RunCmdExited"}

\* The parsed arguments ask to keep the directory.
KeepFlag == "tmp_dirKeep" \in DOMAIN ns /\ ns["tmp_dirKeep"]

\* Control has left main_argparse after running the command.
LeftAfterCommand == pc \in {"Done", "Raised"} /\ pending.kind # "none"

\* C1: when the parsed arguments carry tmp_dir and control has left
\* main_argparse after the command returned or raised, the finally block has
\* decided about the scoped directory: it no longer exists if tmp_dirKeep is
\* false and util.file.keep_tmp() is inactive, and it still exists if
\* tmp_dirKeep is true or keep_tmp() is active.
C1_TempDirHandledOnExit ==
    (LeftAfterCommand /\ "tmp_dir" \in DOMAIN ns) =>
        /\ tempdir # NoDir
        /\ KeepFlag \/ keepTmp \in {"yes", "no"}
        /\ (~KeepFlag /\ keepTmp = "no") => tempdir \notin fs
        /\ (KeepFlag \/ keepTmp = "yes") => tempdir \in fs

\* C1 witness: the command raised and the directory is gone.
C1_Witness ==
    /\ pc = "Raised"
    /\ pending.kind = "exc"
    /\ "tmp_dir" \in DOMAIN ns
    /\ ~KeepFlag
    /\ tempdir \notin fs

\* A handler was called and raised.
HandlerRaised == calls # << >> /\ handlerOutcome.kind = "exc"

\* C2: once a handler has raised inside main_argparse, it is in its finally block or
\* has been left by that same exception; it never returns a value, and with a
\* tmp_dir the step before the exception leaves is the removal or the
\* retention of the directory.
C2_ExceptionPropagatesAfterCleanup ==
    (HandlerRaised /\ ~InRunCmd) =>
        /\ pc \in {"CommandEnded", "TempDirKept", "TempDirRemoved", "Raised"}
        /\ pc # "Raised" => result = NoOutcome
        /\ pc = "Raised" =>
             /\ result = Raised(handlerOutcome.exc)
             /\ events[Len(events)] = "leave"
             /\ "tmp_dir" \in DOMAIN ns =>
                  events[Len(events) - 1] \in {"keep", "rmtree"}

\* C2 witness: a BadInputError has left main_argparse after the cleanup.
C2_Witness ==
    /\ pc = "Raised"
    /\ HandlerRaised
    /\ result.exc = "BadInputError"
    /\ "tmp_dir" \in DOMAIN ns

\* C3: the value main_argparse returns is 0 when the command returned None
\* and is otherwise the value the command returned, with and without tmp_dir.
C3_ReturnNormalized ==
    pc = "Done" =>
        /\ result.kind = "ret"
        /\ pending.val = NoneVal => result.val = IntVal(0)
        /\ pending.val # NoneVal => result.val = pending.val

\* C3 witness: a command with a tmp_dir returned False, which is passed on.
C3_Witness ==
    /\ pc = "Done"
    /\ pending.val = BoolVal(FALSE)
    /\ result.val = BoolVal(FALSE)
    /\ "tmp_dir" \in DOMAIN ns

\* C4: every call the adapter of main_command makes of its handler passes
\* exactly the namespace fields whose names the handler declares, each with
\* its namespace value.
C4_BinderPassesDeclaredFields ==
    \A i \in 1..Len(calls) :
        calls[i].bykw =>
            /\ DOMAIN calls[i].passed = (DOMAIN ns) \cap Handlers[calls[i].handler].args
            /\ \A k \in DOMAIN calls[i].passed : calls[i].passed[k] = ns[k]

\* C4 witness: a handler declaring command and loglevel got both, and
\* neither func_main nor threads.
C4_Witness ==
    /\ calls # << >>
    /\ calls[1].bykw
    /\ calls[1].handler = "main_cmdname"
    /\ DOMAIN calls[1].passed = {"command", "loglevel"}
    /\ {"func_main", "threads"} \subseteq DOMAIN ns

\* Command i is attached with split_args and its handler is variadic.
VariadicSplit(i) ==
    /\ commands[i].builder.split
    /\ Handlers[commands[i].builder.handler].varargs
         \/ Handlers[commands[i].builder.handler].varkw

\* C5: a command whose handler declares *args or **kwargs and is attached
\* with split_args is never attached: its builder ends in an AssertionError
\* (make_parser does not get past it, run_cmd on it raises), no callback is
\* stored on its parser, and the handler is never called.
C5_VariadicFailsAtConstruction ==
    \A i \in 1..Len(commands) :
        VariadicSplit(i) =>
            /\ ~InRunCmd =>
                  /\ bi <= i
                  /\ pc \in {"Start", "Building", "Raised"}
                  /\ pc = "Raised" => result = Raised("AssertionError")
            /\ (InRunCmd /\ bi = i) =>
                  /\ pc = "RunCmdRaised"
                  /\ result = Raised("AssertionError")
            /\ is_single(commands) => "" \notin DOMAIN parser.subs
            /\ commands[i].name \in DOMAIN parser.subs =>
                  /\ "func_main" \notin DOMAIN parser.subs[commands[i].name].defaults
                  /\ ~parser.subs[commands[i].name].configured
            /\ \A k \in 1..Len(calls) : calls[k].handler # commands[i].builder.handler

\* C5 witness: the second command of a list failed to attach; its subparser
\* holds the options common_args gave it and no callback.
C5_Witness ==
    /\ pc = "Raised"
    /\ bi = 2
    /\ VariadicSplit(2)
    /\ result = Raised("AssertionError")
    /\ "run" \in DOMAIN parser.subs
    /\ parser.subs["run"].opts = {"tmp_dir", "tmp_dirKeep"}
    /\ "func_main" \notin DOMAIN parser.subs["run"].defaults

\* load_cmd_plugins has run at least once, directly or in attach_main.
LoadedOnce == InSeq("load_cmd_plugins", events)

RECURSIVE NoRepeats(_)
NoRepeats(q) ==
    Len(q) <= 1 \/ (~InSeq(Head(q), Tail(q)) /\ NoRepeats(Tail(q)))

\* C6: no plugin identity is handed to register() twice, and a call of
\* load_cmd_plugins (direct, or the one attach_main makes, under
\* make_parser or under run_cmd) that is not the
\* first leaves the registered plugins as they were.
C6_PluginLoadingIdempotent ==
    /\ [](NoRepeats(regCalls) /\ NoRepeats(registry))
    /\ [][ (LoadedOnce /\ (LoadCmdPlugins \/ BuildCommand \/ RunCmdBuild)) =>
             registry' = registry ]_vars

\* C6 witness: load_cmd_plugins has run three times (once directly, twice in
\* attach_main) and the built-ins are registered once.
C6_Witness ==
    /\ loads = 1
    /\ pc = "ParserBuilt"
    /\ Len(commands) = 2
    /\ registry = <<PluginCmd, PluginMetadata>>
    /\ regCalls = <<PluginCmd, PluginMetadata>>

\* Only the plugins load_cmd_plugins registers are registered.
OnlyBuiltins == registry = <<PluginCmd, PluginMetadata>>

\* The stored main callback has been called.
MainCalled == InSeq("func_main", events)

\* C7: with only the built-ins registered, the stored main callback calls
\* the handler exactly once, with args (through the binder when attach_main
\* was given split_args), and gives back exactly what the handler returned
\* or raised.
C7_DefaultCallCommand ==
    (OnlyBuiltins /\ MainCalled) =>
        /\ Len(calls) = 1
        /\ calls[1].handler = ns["func_main"].cmd_main
        /\ ~ns["func_main"].split => (~calls[1].bykw /\ calls[1].passed = ns)
        /\ handlerOutcome.kind # "none" => pending = handlerOutcome

\* C7 witness: the handler was called with args and returned 3, and so did
\* the callback.
C7_Witness ==
    /\ OnlyBuiltins
    /\ MainCalled
    /\ Len(calls) = 1
    /\ ~calls[1].bykw
    /\ handlerOutcome = Returned(IntVal(3))
    /\ pending = Returned(IntVal(3))

\* What an invocation with --help shows: the root help of a multi-command
\* set, the help of the only parser otherwise.
HelpOfHelp == IF is_single(commands) THEN "" ELSE "root"

\* C8: with no process argument main_argparse parses ['--help'] and
\* nothing else: help is shown as for --help and the process exits; no
\* handler is called, logging is not configured, no directory is made.
C8_NoArgumentsIsHelp ==
    (Len(argv) = 1 /\ ~InRunCmd) =>
        /\ pc \in {"Start", "Building", "ParserBuilt", "Exited", "Raised"}
        /\ pc = "Raised" => bi <= Len(commands)
        /\ pc = "Exited" =>
             /\ parsed = << <<"--help">> >>
             /\ helpShown = HelpOfHelp
             /\ result = Exited(0)
        /\ calls = << >>
        /\ logHandlers = 0
        /\ fs = {} /\ tempdir = NoDir

\* C8 witness: the root help was shown for no argument.
C8_Witness ==
    /\ Len(argv) = 1
    /\ pc = "Exited"
    /\ helpShown = "root"
    /\ result = Exited(0)

\* The names of the commands of the list.
CommandNames == { commands[i].name : i \in 1..Len(commands) }

\* The only process argument names a subcommand of a multi-command set.
LoneCommand ==
    /\ Len(argv) = 2
    /\ ~is_single(commands)
    /\ argv[2] \in CommandNames

\* C9: with one process argument that names a subcommand of a multi-command
\* set, main_argparse parses [<command>, '--help'] and nothing else: the help
\* of that subcommand is shown and the process exits; its handler is never
\* called and no directory is made.
C9_LoneCommandIsHelp ==
    (LoneCommand /\ ~InRunCmd) =>
        /\ pc \in {"Start", "Building", "ParserBuilt", "Exited", "Raised"}
        /\ pc = "Raised" => bi <= Len(commands)
        /\ pc = "Exited" =>
             /\ parsed = << <<argv[2], "--help">> >>
             /\ helpShown = argv[2]
             /\ result = Exited(0)
        /\ calls = << >>
        /\ fs = {} /\ tempdir = NoDir

\* C9 witness: 'prog.py run' for a command without any option showed the
\* help of run.
C9_Witness ==
    /\ LoneCommand
    /\ argv[2] = "run"
    /\ pc = "Exited"
    /\ helpShown = "run"
    /\ parser.subs["run"].opts = {}

\* The process arguments hold x, and no --help.
ArgWithoutHelp(x) ==
    /\ \E i \in 2..Len(argv) : argv[i] = x
    /\ \A i \in 2..Len(argv) : argv[i] # "--help"

\* Process arguments that fail to parse: an unknown subcommand; or, where no
\* help is forced or asked for, an option no parser declares or a --loglevel
\* value outside the choices.
BadArgv ==
    \/ /\ ~is_single(commands)
       /\ Len(argv) >= 2
       /\ argv[2] \in WordTokens \ CommandNames
    \/ /\ is_single(commands) \/ Len(argv) >= 3
       /\ ArgWithoutHelp("--bogus") \/ ArgWithoutHelp("--loglevel=BAD")

\* C10: when the process arguments fail to parse, the process exits with
\* status 2 out of parse_args: no handler is called, logging is not
\* configured, no directory is made and TMPDIR is not written.
C10_ParseFailureExitsFirst ==
    (BadArgv /\ ~InRunCmd) =>
        /\ pc \in {"Start", "Building", "ParserBuilt", "Exited", "Raised"}
        /\ pc = "Raised" => bi <= Len(commands)
        /\ pc = "Exited" => result = Exited(2) /\ helpShown = NoneName
        /\ calls = << >>
        /\ logHandlers = 0
        /\ fs = {} /\ tempdir = NoDir
        /\ "TMPDIR" \notin DOMAIN environ

\* C10 witness: 'prog.py build --loglevel=BAD' exited with status 2.
C10_Witness ==
    /\ pc = "Exited"
    /\ result = Exited(2)
    /\ Len(argv) = 3
    /\ argv[2] = "build"
    /\ argv[3] = "--loglevel=BAD"
    /\ "build" \in DOMAIN parser.subs
    /\ "loglevel" \in parser.subs["build"].opts

\* The command list has more than one descriptor and one of them is named
\* None.
MixedList ==
    Len(commands) > 1 /\ \E i \in 1..Len(commands) : commands[i].name = NoneName

\* C11: make_parser, given a list of more than one descriptor in which some
\* descriptor's name is None, rejects the list: it does not leave a parser
\* (control never gets past the building of the tree, and no subcommand is
\* registered under None).
C11_MixedListRejected ==
    (MixedList /\ ~InRunCmd) =>
        /\ pc \in {"Start", "Building", "Raised"}
        /\ pc = "Raised" => result.kind = "exc" /\ events[Len(events)] # "parse_args"
        /\ NoneName \notin DOMAIN parser.subs

\* make_parser has returned a parser.
ParserReturned ==
    ~InRunCmd /\ pc \notin {"Start", "Building"} /\ bi > Len(commands)

\* The parser the builder of the only descriptor leaves when it is run on
\* its own, outside make_parser.
OwnParser == RunBuilder(commands[1].builder, NewParser, << >>,
                        docs[commands[1].builder.handler]).parser

\* C12: given exactly one descriptor whose name is None, make_parser returns
\* the parser that descriptor's builder produced, with the command
\* identifier defaulted to the empty string and nothing else added: no root
\* parser, no subcommand dispatcher, no custom help action and no --version
\* option at this level.
C12_SingleNamelessIsOwnParser ==
    (is_single(commands) /\ ParserReturned) =>
        /\ parser.kind = "single"
        /\ DOMAIN parser.subs = {""}
        /\ parser.subs[""].opts = OwnParser.opts
        /\ "version" \notin parser.subs[""].opts
        /\ parser.subs[""].add_help = OwnParser.add_help
        /\ parser.subs[""].description = OwnParser.description
        /\ parser.subs[""].defaults = ("command" :> "") @@ OwnParser.defaults
        /\ helpShown # "root" /\ helpText = << >>
        /\ "command" \in DOMAIN ns => ns["command"] = ""

C12_Witness ==
    /\ pc = "Done"
    /\ is_single(commands)
    /\ ParserReturned
    /\ calls # << >>
    /\ ns["command"] = ""
    /\ parser.subs[""].opts = {"tmp_dir", "tmp_dirKeep", "loglevel"}

\* The words of a text: its maximal runs of characters that are not
\* whitespace, in order.
RECURSIVE WordLen(_)
WordLen(s) ==
    IF s = << >> \/ IsWhite(Head(s)) THEN 0 ELSE 1 + WordLen(Tail(s))

RECURSIVE Words(_)
Words(s) ==
    IF s = << >> THEN << >>
    ELSE IF IsWhite(Head(s)) THEN Words(Tail(s))
    ELSE <<SubSeq(s, 1, WordLen(s))>> \o Words(SubSeq(s, WordLen(s) + 1, Len(s)))

\* The lines of a text.
RECURSIVE LineLen(_)
LineLen(s) ==
    IF s = << >> \/ Head(s) = "\n" THEN 0 ELSE 1 + LineLen(Tail(s))

RECURSIVE Lines(_)
Lines(s) ==
    IF LineLen(s) = Len(s) THEN <<s>>
    ELSE <<SubSeq(s, 1, LineLen(s))>> \o Lines(SubSeq(s, LineLen(s) + 2, Len(s)))

\* A text is a normalized rendering of a description: the same words in
\* the same order, no tab, no two consecutive spaces, lines of at most
\* HelpWidth characters.
NormalizedRendering(t, d) ==
    /\ Words(t) = Words(d)
    /\ \A i \in 1..Len(t) : t[i] # "\t"
    /\ \A i \in 1..(Len(t) - 1) : ~(t[i] = " " /\ t[i + 1] = " ")
    /\ \A i \in 1..Len(Lines(t)) : Len(Lines(t)[i]) <= HelpWidth

\* C13: for any subcommand description, the text the custom help action
\* prints for it is a whitespace-normalized, word-wrapped rendering: the
\* same words in the same order, line breaks and tabs removed, no two
\* consecutive spaces between words, no two words fused together, on lines
\* of at most 60 characters before the indentation.
C13_HelpTextNormalized ==
    (pc = "Exited" /\ helpShown = "root") =>
        \A name \in DOMAIN parser.subs :
            parser.subs[name].description # << >> =>
                /\ helpText[name] = <<help_indented(parser.subs[name].description)>>
                /\ NormalizedRendering(help_description(parser.subs[name].description),
                                       parser.subs[name].description)

\* The place of the first step named e among the steps taken, 0 if none.
Pos(e) ==
    IF \E i \in 1..Len(events) : events[i] = e
    THEN CHOOSE i \in 1..Len(events) :
             events[i] = e /\ \A j \in 1..(i - 1) : events[j] # e
    ELSE 0

\* The finally block has removed or retained the directory.
CleanedUp == Pos("keep") > 0 \/ Pos("rmtree") > 0

\* C14: every run of main_argparse that invokes a command passes through
\* the states in order: the command starts only after the parser is built,
\* the arguments are parsed and logging is configured, and, when the parsed
\* arguments carry tmp_dir, only after the scoped directory exists under
\* the given base directory and tempfile.tempdir and TMPDIR hold its path;
\* removal or retention happens only after the handler returned or raised.
C14_ControllerOrder ==
    /\ (Pos("func_main") > 0 /\ ~InRunCmd) =>
          /\ 0 < Pos("make_parser")
          /\ Pos("make_parser") < Pos("parse_args")
          /\ Pos("parse_args") < Pos("setup_logger")
          /\ Pos("setup_logger") < Pos("func_main")
          /\ bi > Len(commands)
          /\ logHandlers = 1
          /\ "tmp_dir" \in DOMAIN ns =>
                /\ Pos("setup_logger") < Pos("mkdtemp")
                /\ Pos("mkdtemp") < Pos("func_main")
                /\ tempdir # NoDir
                /\ tempdir.dir = ns["tmp_dir"]
                /\ "TMPDIR" \in DOMAIN environ
                /\ environ["TMPDIR"] = tempdir
    /\ (pc = "CommandRunning" /\ "tmp_dir" \in DOMAIN ns) => tempdir \in fs
    /\ "tmp_dir" \notin DOMAIN ns => (tempdir = NoDir /\ fs = {})
    /\ CleanedUp =>
          /\ pending.kind \in {"ret", "exc"}
          /\ Pos("func_main") < Pos("keep") + Pos("rmtree")
          /\ calls # << >> =>
                /\ handlerOutcome.kind \in {"ret", "exc"}
                /\ Pos("handler_ends") > Pos("func_main")
                /\ Pos("handler_ends") < Pos("keep") + Pos("rmtree")

C14_Witness ==
    /\ pc = "Done"
    /\ calls # << >>
    /\ Pos("keep") > Pos("handler_ends")
    /\ tempdir.dir = "/alt"
    /\ tempdir \in fs
    /\ "TMPDIR" \in DOMAIN environ
    /\ environ["TMPDIR"] = tempdir

\* The place of a plugin's implementation among those the dispatch called,
\* 0 if it was not called.
Called(p) ==
    IF \E i \in 1..Len(hookTrace) : hookTrace[i].plugin = p
    THEN CHOOSE i \in 1..Len(hookTrace) : hookTrace[i].plugin = p
    ELSE 0

\* C15: in a cmd_call_cmd dispatch the implementations are tried in priority
\* order and the first that does not defer determines the result; the
\* built-in default (marked run-last) invokes the handler only when every
\* higher-priority implementation deferred, and when a higher-priority
\* implementation gives a result the default does not run and the handler
\* is not invoked.
C15_DispatchPriority ==
    Pos("func_main") > 0 =>
        /\ \A i \in 1..(Len(hookTrace) - 1) : hookTrace[i].deferred
        /\ \A i, j \in 1..Len(hookTrace) :
              hookTrace[i].plugin = hookTrace[j].plugin => i = j
        /\ Called(PluginCmd) > 0 =>
              /\ Called(PluginCmd) = Len(hookTrace)
              /\ InSeq(PluginOther, registry) =>
                    /\ 0 < Called(PluginOther)
                    /\ Called(PluginOther) < Called(PluginCmd)
                    /\ hookTrace[Called(PluginOther)].deferred
        /\ calls # << >> => (Called(PluginCmd) > 0 /\ Len(calls) = 1)
        /\ (Called(PluginOther) > 0 /\ ~hookTrace[Called(PluginOther)].deferred) =>
              /\ Called(PluginCmd) = 0
              /\ calls = << >>
              /\ handlerOutcome = NoOutcome
              /\ pending.kind = "ret"

C15_Witness ==
    /\ pc = "Done"
    /\ InSeq(PluginCmd, registry)
    /\ hookTrace = <<[plugin |-> PluginOther, deferred |-> FALSE]>>
    /\ calls = << >>
    /\ pending = Returned(IntVal(3))
    /\ result = Returned(IntVal(3))

\* C16: attach_main performs its steps in order on every call: the plugins
\* are loaded (if not already), then cmd_configure_parser is run against
\* the given parser, then the main callback is stored on that parser; the
\* stored callback never calls the handler directly, it always dispatches
\* cmd_call_cmd on the hook registry with the handler (wrapped by the
\* binder when split_args is set) and the parsed arguments.
C16_AttachMainOrder ==
    /\ \A i \in 1..Len(events) :
          /\ events[i] = "set_defaults" =>
                /\ i >= 3
                /\ events[i - 1] = "cmd_configure_parser"
                /\ events[i - 2] = "load_cmd_plugins"
          /\ events[i] = "cmd_configure_parser" =>
                /\ i < Len(events)
                /\ events[i + 1] = "set_defaults"
    /\ \A name \in DOMAIN parser.subs :
          /\ "func_main" \in DOMAIN parser.subs[name].defaults =>
                /\ parser.subs[name].configured
                /\ parser.subs[name].configured_by # << >>
          /\ "func_main" \notin DOMAIN parser.subs[name].defaults =>
                /\ pc \in {"Raised", "RunCmdRaised"}
                /\ ~parser.subs[name].configured
    /\ calls # << >> =>
          /\ Len(calls) = 1
          /\ Called(PluginCmd) = Len(hookTrace)
          /\ InSeq(PluginCmd, registry)
          /\ calls[1].handler = ns["func_main"].cmd_main
          /\ calls[1].bykw = ns["func_main"].split
          /\ calls[1].passed = IF ns["func_main"].split
                                THEN dict_subset(ns, getargspec(ns["func_main"].cmd_main).args)
                                ELSE ns
    /\ (Pos("func_main") > 0 /\ ~InSeq(PluginCmd, registry)) => calls = << >>

C16_Witness ==
    /\ pc = "Done"
    /\ Len(calls) = 1
    /\ calls[1].bykw
    /\ calls[1].handler = "main_split"
    /\ hookTrace = <<[plugin |-> PluginOther, deferred |-> TRUE],
                     [plugin |-> PluginCmd, deferred |-> FALSE]>>
    /\ Pos("set_defaults") = Pos("cmd_configure_parser") + 1

\* C17: whenever main_argparse retains the scoped directory (tmp_dirKeep set
\* or the keep override active), the directory's path is emitted to the
\* log, at every log level --loglevel can select, the default INFO included.
C17_RetainedPathLogged ==
    Pos("keep") > 0 =>
        /\ tempdir \in fs
        /\ InSeq("saving tmp_dir", logOut)

\* C18: every value the --loglevel option accepts (DEBUG, INFO, WARNING,
\* ERROR, CRITICAL, EXCEPTION), and the DEBUG level used when the loglevel
\* field is absent, takes main_argparse from ArgsParsed to
\* LoggingConfigured without failure, so that the command is then run.
C18_EveryLoglevelConfigures ==
    Pos("setup_logger") > 0 =>
        /\ logHandlers = 1
        /\ logLevel = LoggingAttr(effective_loglevel(ns))
        /\ logLevel > 0
        /\ pc = "Raised" => Pos("func_main") > 0
        /\ pc \in {"Done", "Raised"} => Pos("func_main") > 0

\* C19: after attach_main returns, the built-in lowest-priority cmd_call_cmd
\* implementation (the one that calls the handler) is registered, whatever
\* the registry held before the call, including when another plugin was
\* registered before the first load_cmd_plugins; so every dispatch of the
\* stored main callback has a terminal default that runs the handler.
C19_DefaultAlwaysRegistered ==
    /\ Pos("set_defaults") > 0 => InSeq(PluginCmd, registry)
    /\ (Pos("func_main") > 0 /\ "func_main" \in DOMAIN ns) =>
          call_cmd_chain(registry) # << >>
              /\ call_cmd_chain(registry)[Len(call_cmd_chain(registry))] = PluginCmd
    /\ (Pos("func_main") > 0 /\ "func_main" \in DOMAIN ns
          /\ \A i \in 1..Len(hookTrace) :
                hookTrace[i].plugin = PluginOther => hookTrace[i].deferred) =>
          calls # << >>

====
